---- MODULE Spec2Model ----
(***************************************************************************)
(* Model of plugins/modules/cloud/opennebula/one_network.py: one           *)
(* invocation of NetworkModule.run is one step.  The remote OpenNebula     *)
(* server is the variable pool (the virtual networks) together with fixed  *)
(* user and group pools; every remote mutating call an invocation issues   *)
(* is recorded, in order, in last.calls.                                   *)
(*                                                                         *)
(* Python's None is the empty sequence <<>> and a given value x is <<x>>.  *)
(* A template parameter is a record [type, items]: the Python type of the  *)
(* value ("dict" or "NoneType") and the dict as a set of <<key, value>>.   *)
(***************************************************************************)
EXTENDS Integers, Sequences, FiniteSets

VARIABLES pool, nextId, last

vars == <<pool, nextId, last>>

None == <<>>

Some(x) == <<x>>

\* ------------------------------------------------------------------ bounds

\* Largest network ID the server hands out.
MaxId == 2

\* IDs of the networks that exist before the first invocation.
InitIDs == {0, 1}

\* ------------------------------------------------------- the remote server

UserPool == << [ID |-> 2, NAME |-> "alice"], [ID |-> 3, NAME |-> "bob"] >>

GroupPool == << [ID |-> 100, NAME |-> "users"], [ID |-> 101, NAME |-> "ops"] >>

\* The user (and primary group) whose credentials the session uses.
SessionUser == UserPool[1]

SessionGroup == GroupPool[1]

UNAME(uid) == UserPool[CHOOSE i \in 1 .. Len(UserPool) : UserPool[i].ID = uid].NAME

GNAME(gid) == GroupPool[CHOOSE i \in 1 .. Len(GroupPool) : GroupPool[i].ID = gid].NAME

NetName(i) == IF i = 0 THEN "net0" ELSE "net1"

Names == {NetName(i) : i \in InitIDs}

TA1 == {<<"A", "1">>}

TB1 == {<<"B", "1">>}

TA2B1 == {<<"A", "2">>, <<"B", "1">>}

\* The ID the server gives the first network allocated.
FirstFreeId == Cardinality(InitIDs)

\* Template of network i before the first invocation.
InitTemplate(i) == IF i = 0 THEN TA2B1 ELSE TB1

\* A remote mutating call.  Fields a call does not have are -1 / {}.
Call(op, id, uid, gid, template) ==
    [op |-> op, id |-> id, uid |-> uid, gid |-> gid, template |-> template]

\* one.vn.update(id, template, 0): 0 = replace the whole template.
vn_update(vnpool, id, template) ==
    {IF n.ID = id THEN [n EXCEPT !.TEMPLATE = template] ELSE n : n \in vnpool}

\* one.vn.chown(id, uid, gid): -1 leaves the owner / the group as it is.
vn_chown(vnpool, id, uid, gid) ==
    {IF n.ID = id
       THEN [n EXCEPT !.UID = IF uid = -1 THEN @ ELSE uid,
                      !.GID = IF gid = -1 THEN @ ELSE gid]
       ELSE n : n \in vnpool}

\* one.vn.delete(id)
vn_delete(vnpool, id) == {n \in vnpool : n.ID # id}

\* allocate(template text): a new network owned by the session user; the
\* NAME attribute of the text names it, the rest is its template.
vn_allocate(vnpool, id, template) ==
    vnpool \cup
      {[ID |-> id,
        NAME |-> (CHOOSE kv \in template : kv[1] = "NAME")[2],
        UID |-> SessionUser.ID,
        GID |-> SessionGroup.ID,
        TEMPLATE |-> {kv \in template : kv[1] # "NAME"}]}

\* The server's state after one call.
Apply(vnpool, id, c) ==
    IF c.op = "update" THEN vn_update(vnpool, c.id, c.template)
    ELSE IF c.op = "chown" THEN vn_chown(vnpool, c.id, c.uid, c.gid)
    ELSE IF c.op = "delete" THEN vn_delete(vnpool, c.id)
    ELSE vn_allocate(vnpool, id, c.template)

RECURSIVE ApplyAll(_, _, _)
ApplyAll(vnpool, id, cs) ==
    IF cs = <<>> THEN vnpool
    ELSE ApplyAll(Apply(vnpool, id, Head(cs)), id, Tail(cs))

\* ------------------------------------------------------------ the module

NoneT == [type |-> "NoneType", items |-> {}]

Dict(items) == [type |-> "dict", items |-> items]

\* Python truthiness of an optional int parameter: None and 0 are false.
Truthy(x) == x # None /\ x[1] # 0

\* Python truthiness of an optional str parameter: None and "" are false.
TruthyStr(x) == x # None /\ x[1] # ""

\* one.vnpool.info(-3, -1, -1): the networks belonging to the session user;
\* the first one in pool (ID) order that satisfies the predicate, or None.
\* The predicate is given as the set of the networks it holds for.
get_network(vnpool, predicate) ==
    LET m == {n \in vnpool : n.UID = SessionUser.ID /\ n \in predicate}
    IN  IF m = {} THEN None
        ELSE Some(CHOOSE n \in m : \A o \in m : n.ID <= o.ID)

get_network_by_id(vnpool, network_id) ==
    get_network(vnpool, {n \in vnpool : network_id # None /\ n.ID = network_id[1]})

get_network_by_name(vnpool, network_name) ==
    get_network(vnpool,
                {n \in vnpool : network_name # None /\ n.NAME = network_name[1]})

get_network_instance(vnpool, requested_id, requested_name) ==
    IF Truthy(requested_id)
      THEN get_network_by_id(vnpool, requested_id)
      ELSE get_network_by_name(vnpool, requested_name)

\* The info dict of a network (the caller has checked network # None).
get_network_info(network) ==
    [id |-> network.ID,
     name |-> network.NAME,
     template |-> network.TEMPLATE,
     user_name |-> UNAME(network.UID),
     user_id |-> network.UID,
     group_name |-> GNAME(network.GID),
     group_id |-> network.GID]

\* Some(user), or None where the code calls self.fail.
get_user_by_name(user_name) ==
    LET m == {i \in 1 .. Len(UserPool) : UserPool[i].NAME = user_name}
    IN  IF m = {} THEN None
        ELSE Some(UserPool[CHOOSE i \in m : \A j \in m : i <= j])

get_group_by_name(group_name) ==
    LET m == {i \in 1 .. Len(GroupPool) : GroupPool[i].NAME = group_name}
    IN  IF m = {} THEN None
        ELSE Some(GroupPool[CHOOSE i \in m : \A j \in m : i <= j])

DictKeys(d) == {kv[1] : kv \in d}

\* OpenNebulaModule.requires_template_update: an update is required when a
\* desired key is missing from the current template or the current values of
\* the desired keys differ from the desired ones.
requires_template_update(current, desired) ==
    IF desired = {} THEN FALSE
    ELSE IF \E k \in DictKeys(desired) : k \notin DictKeys(current) THEN TRUE
    ELSE desired # {kv \in current : kv[1] \in DictKeys(desired)}

get_template_diff(existing_config, proposed_template) ==
    LET proposed == IF proposed_template.type = "NoneType" THEN {}
                    ELSE proposed_template.items
    IN  requires_template_update(existing_config.template, proposed)

\* The keys both dicts have, other than template, whose proposed value is
\* not None and differs from the existing one.
get_parameter_diff(existing_config, proposed_config) ==
    {key \in {"id", "name", "user_name", "group_name"} :
        /\ proposed_config[key] # None
        /\ proposed_config[key][1] # existing_config[key]}

\* allocate_text with the concatenation accepting a dict.
allocate_text_any(name, network_data) ==
    IF name # None
      THEN [ok |-> TRUE, text |-> {<<"NAME", name[1]>>} \cup network_data.items]
      ELSE [ok |-> FALSE, text |-> {}]

\* "NAME = \"" + name + "\"\n" + network_data: str + str concatenates, str
\* plus anything else raises TypeError.
allocate_text(name, network_data) ==
    IF name # None /\ network_data.type = "str"
      THEN [ok |-> TRUE, text |-> {<<"NAME", name[1]>>} \cup network_data.items]
      ELSE [ok |-> FALSE, text |-> {}]

\* The outcome of one part of an invocation: the calls issued, how the part
\* ended ("return", "fail" = fail_json, "error" = uncaught exception) and
\* the changed flag of the result it returned ("none" if it has no such key).
Outcome(calls, end, changed) == [calls |-> calls, end |-> end, changed |-> changed]

Bool(b) == IF b THEN "true" ELSE "false"

create_network(vnpool, id, name, network_data, check_mode) ==
    LET t == allocate_text(name, network_data)
        calls == IF check_mode THEN <<>>
                 ELSE <<Call("allocate", -1, -1, -1, t.text)>>
    IN  IF ~check_mode /\ ~t.ok THEN Outcome(<<>>, "error", "none")
        ELSE IF get_network_by_name(ApplyAll(vnpool, id, calls), name) = None
               THEN Outcome(calls, "error", "none")
        ELSE Outcome(calls, "return", "true")

\* change_owner with the branches tested in another order: when both names
\* differ only the owner is transferred.
change_owner_user_first(network_id, param_diffs, user_name, group_name) ==
    IF param_diffs = {} THEN Outcome(<<>>, "return", "false")
    ELSE IF "user_name" \in param_diffs THEN
        LET user == get_user_by_name(user_name[1])
        IN  IF user = None THEN Outcome(<<>>, "fail", "none")
            ELSE Outcome(<<Call("chown", network_id, user[1].ID, -1, {})>>,
                         "return", "true")
    ELSE IF "group_name" \in param_diffs THEN
        LET group == get_group_by_name(group_name[1])
        IN  IF group = None THEN Outcome(<<>>, "fail", "none")
            ELSE Outcome(<<Call("chown", network_id, -1, group[1].ID, {})>>,
                         "return", "true")
    ELSE Outcome(<<>>, "error", "none")

\* change_owner transferring the owner before it looks the group up.
change_owner_eager(network_id, param_diffs, user_name, group_name) ==
    IF param_diffs = {} THEN Outcome(<<>>, "return", "false")
    ELSE IF "user_name" \in param_diffs /\ "group_name" \in param_diffs THEN
        LET user == get_user_by_name(user_name[1])
            group == get_group_by_name(group_name[1])
        IN  IF user = None THEN Outcome(<<>>, "fail", "none")
            ELSE IF group = None
              THEN Outcome(<<Call("chown", network_id, user[1].ID, -1, {})>>,
                           "fail", "none")
            ELSE Outcome(<<Call("chown", network_id, user[1].ID, group[1].ID, {})>>,
                         "return", "true")
    ELSE IF "user_name" \in param_diffs THEN
        LET user == get_user_by_name(user_name[1])
        IN  IF user = None THEN Outcome(<<>>, "fail", "none")
            ELSE Outcome(<<Call("chown", network_id, user[1].ID, -1, {})>>,
                         "return", "true")
    ELSE IF "group_name" \in param_diffs THEN
        LET group == get_group_by_name(group_name[1])
        IN  IF group = None THEN Outcome(<<>>, "fail", "none")
            ELSE Outcome(<<Call("chown", network_id, -1, group[1].ID, {})>>,
                         "return", "true")
    ELSE Outcome(<<>>, "error", "none")

\* The ownership part of update_network, lines 283-296.
change_owner(network_id, param_diffs, user_name, group_name) ==
    IF param_diffs = {} THEN Outcome(<<>>, "return", "false")
    ELSE IF "user_name" \in param_diffs /\ "group_name" \in param_diffs THEN
        LET user == get_user_by_name(user_name[1])
            group == get_group_by_name(group_name[1])
        IN  IF user = None \/ group = None THEN Outcome(<<>>, "fail", "none")
            ELSE Outcome(<<Call("chown", network_id, user[1].ID, group[1].ID, {})>>,
                         "return", "true")
    ELSE IF "user_name" \in param_diffs THEN
        LET user == get_user_by_name(user_name[1])
        IN  IF user = None THEN Outcome(<<>>, "fail", "none")
            ELSE Outcome(<<Call("chown", network_id, user[1].ID, -1, {})>>,
                         "return", "true")
    ELSE IF "group_name" \in param_diffs THEN
        LET group == get_group_by_name(group_name[1])
        IN  IF group = None THEN Outcome(<<>>, "fail", "none")
            ELSE Outcome(<<Call("chown", network_id, -1, group[1].ID, {})>>,
                         "return", "true")
    ELSE Outcome(<<>>, "error", "none")

update_network(vnpool, network, params) ==
    LET result == get_network_info(get_network_by_id(vnpool, Some(network.ID))[1])
        tdiff == get_template_diff(result, params.template)
        upd == IF tdiff /\ ~params.check_mode
                 THEN <<Call("update", network.ID, -1, -1, params.template.items)>>
                 ELSE <<>>
        own == change_owner(network.ID, get_parameter_diff(result, params),
                            params.user_name, params.group_name)
    IN  Outcome(upd \o own.calls, own.end,
                IF own.end = "return" THEN Bool(tdiff \/ own.changed = "true")
                ELSE "none")

delete_network(network, check_mode) ==
    IF network = None THEN Outcome(<<>>, "return", "false")
    ELSE IF ~check_mode THEN
        Outcome(<<Call("delete", network[1].ID, -1, -1, {})>>, "return", "true")
    ELSE Outcome(<<>>, "return", "true")

\* NetworkModule.run: [found, calls, end, changed].  end is "exit"
\* (exit_json), "fail" (fail_json) or "error" (uncaught exception).
run(vnpool, id, params) ==
    LET network == get_network_instance(vnpool, params.id, params.name)
        Done(o) == [found |-> network, calls |-> o.calls,
                    end |-> IF o.end = "return" THEN "exit" ELSE o.end,
                    changed |-> o.changed]
    IN  IF params.state = "query" THEN
            IF Truthy(params.id) \/ TruthyStr(params.name) THEN
                 IF network = None THEN Done(Outcome(<<>>, "error", "none"))
                 ELSE Done(Outcome(<<>>, "return", "none"))
            ELSE Done(Outcome(<<>>, "fail", "none"))
        ELSE IF network = None /\ params.state # "absent" /\ Truthy(params.id) THEN
            Done(Outcome(<<>>, "fail", "none"))
        ELSE IF params.state = "absent" THEN
            Done(delete_network(network, params.check_mode))
        ELSE IF network = None THEN
            Done(create_network(vnpool, id, params.name, params.template,
                                params.check_mode))
        ELSE Done(update_network(vnpool, network[1], params))

\* ---------------------------------------------------------- the parameters

Targets == {<<Some(i), None>> : i \in InitIDs} \cup {<<None, Some(n)>> : n \in Names}

UserNames == {None, Some("alice"), Some("bob"), Some("ghost")}

GroupNames == {None, Some("ops"), Some("ghost")}

\* template is a dict and required when state is present (argument_spec,
\* required_if); id and name are mutually exclusive and one is required.
Params ==
    {[state |-> "present", id |-> t[1], name |-> t[2], template |-> Dict(d),
      user_name |-> u, group_name |-> g, check_mode |-> c] :
        t \in Targets, d \in {{}, TA1}, u \in UserNames, g \in GroupNames,
        c \in BOOLEAN}
    \cup
    {[state |-> s, id |-> t[1], name |-> t[2], template |-> NoneT,
      user_name |-> None, group_name |-> None, check_mode |-> c] :
        s \in {"absent", "query"}, t \in Targets, c \in BOOLEAN}

NoParams ==
    [state |-> "none", id |-> None, name |-> None, template |-> NoneT,
     user_name |-> None, group_name |-> None, check_mode |-> FALSE]

\* ------------------------------------------------------------ the machine

Init ==
    /\ pool = {[ID |-> i, NAME |-> NetName(i), UID |-> SessionUser.ID,
                 GID |-> SessionGroup.ID, TEMPLATE |-> InitTemplate(i)] :
                i \in InitIDs}
    /\ nextId = FirstFreeId
    /\ last = [p |-> NoParams, found |-> None, calls |-> <<>>, end |-> "init",
               changed |-> "none"]

\* One invocation of the module with parameters p.
Run(p) ==
    LET r == run(pool, nextId, p)
        allocs == {i \in 1 .. Len(r.calls) : r.calls[i].op = "allocate"}
    IN  /\ allocs # {} => nextId <= MaxId
        /\ pool' = ApplyAll(pool, nextId, r.calls)
        /\ nextId' = IF allocs # {} THEN nextId + 1 ELSE nextId
        /\ last' = [p |-> p, found |-> r.found, calls |-> r.calls, end |-> r.end,
                    changed |-> r.changed]

Next == \E p \in Params : Run(p)

Spec == Init /\ [][Next]_vars

\* ------------------------------------------------------------- the claims

CallsOf(cs, op) == SelectSeq(cs, LAMBDA c : c.op = op)

\* The networks of a pool that an id / name parameter pair names.
Named(vnpool, id, name) ==
    {n \in vnpool : \/ id # None /\ n.ID = id[1]
                    \/ name # None /\ n.NAME = name[1]}

UserGiven(p) == p.user_name # None

GroupGiven(p) == p.group_name # None

\* The requested owner / group differs from the one the network found has.
UserDiffers(p, n) == UserGiven(p) /\ p.user_name[1] # UNAME(n.UID)

GroupDiffers(p, n) == GroupGiven(p) /\ p.group_name[1] # GNAME(n.GID)

UserExists(name) == \E i \in 1 .. Len(UserPool) : UserPool[i].NAME = name

GroupExists(name) == \E i \in 1 .. Len(GroupPool) : GroupPool[i].NAME = name

\* last is an invocation with state=present that found its network.
PresentOnExisting == last.p.state = "present" /\ last.found # None

\* C1: when an invocation (not in check mode) has completed successfully, an
\* invocation with identical parameters that follows it immediately issues
\* no mutating remote call, completes and does not report changed=true.
C1_IdempotentRerun ==
    [][(last.end = "exit" /\ ~last.p.check_mode /\ last'.p = last.p)
         => (last'.calls = <<>> /\ last'.end = "exit" /\ last'.changed # "true")]_vars

\* C2: an invocation in check mode issues no mutating remote call (so the
\* pool is after it what it was before).
C2_CheckModeIssuesNoCall == last.p.check_mode => last.calls = <<>>

\* C3: in check mode with state=present, an invocation that finds its
\* network and completes reports changed=true.
C3_CheckModeAlwaysChanged ==
    (PresentOnExisting /\ last.p.check_mode /\ last.end = "exit")
      => last.changed = "true"

\* C4: no two networks of the pool have the same name.
C4_OneNetworkPerName == \A a, b \in pool : a.NAME = b.NAME => a.ID = b.ID

\* C4 witness: a state=present run by name has not found its network, which
\* an earlier run transferred to another owner and which is still in the pool.
C4_Witness ==
    /\ last.p.state = "present" /\ ~last.p.check_mode /\ last.p.name # None
    /\ last.found = None
    /\ \E n \in pool : n.NAME = last.p.name[1] /\ n.UID # SessionUser.ID

\* C5: a state=present invocation by name (not in check mode) issues exactly
\* one allocate call, completes with changed=true and leaves a network of
\* that name in the pool if no network has the name; it issues no allocate
\* call if one has; an invocation with another state issues no allocate call.
C5_CreateWhenMissing ==
    [][LET p == last'.p
           allocs == CallsOf(last'.calls, "allocate")
       IN  /\ (p.state = "present" /\ ~p.check_mode /\ p.name # None) =>
                IF \A n \in pool : n.NAME # p.name[1]
                  THEN /\ Len(allocs) = 1
                       /\ last'.end = "exit" /\ last'.changed = "true"
                       /\ \E n \in pool' : n.NAME = p.name[1]
                  ELSE allocs = <<>>
           /\ p.state # "present" => allocs = <<>>]_vars

\* C6: a state=absent invocation (not in check mode) that finds its network
\* issues exactly one delete call, for that network's ID, removes nothing
\* else, changes no other network and reports changed=true; one that does
\* not find it issues no call and completes with changed=false; after either
\* no network that the id or name parameter names is in the pool.
C6_AbsentDeletes ==
    [][LET p == last'.p
       IN  (p.state = "absent" /\ ~p.check_mode) =>
             /\ last'.end = "exit"
             /\ IF last'.found # None
                  THEN /\ last'.calls = <<Call("delete", last'.found[1].ID, -1, -1, {})>>
                       /\ pool' = pool \ {last'.found[1]}
                       /\ last'.changed = "true"
                  ELSE /\ last'.calls = <<>>
                       /\ pool' = pool
                       /\ last'.changed = "false"
             /\ Named(pool', p.id, p.name) = {}]_vars

\* The network of the pool that has the ID of the network last found.
Current == CHOOSE n \in pool : n.ID = last.found[1].ID

\* The chown call that the differences between the request and the network
\* found ask for.
ExpectedChown ==
    LET p == last.p
        n == last.found[1]
    IN  Call("chown", n.ID,
             IF UserDiffers(p, n) THEN get_user_by_name(p.user_name[1])[1].ID ELSE -1,
             IF GroupDiffers(p, n) THEN get_group_by_name(p.group_name[1])[1].ID ELSE -1,
             {})

\* The owner and the group are the requested ones where the request differed
\* and the ones found where it did not.
OwnershipAsRequested ==
    LET p == last.p
        n == last.found[1]
    IN  /\ UNAME(Current.UID) = IF UserDiffers(p, n) THEN p.user_name[1] ELSE UNAME(n.UID)
        /\ GNAME(Current.GID) = IF GroupDiffers(p, n) THEN p.group_name[1] ELSE GNAME(n.GID)

\* C7 as stated: on an update (state=present, not check mode, network
\* found) a chown call is issued iff a requested owner or group name differs
\* from the network's; it is the only one, carries -1 for the side that does
\* not differ, and leaves the owner and group as requested.
C7_Original ==
    (PresentOnExisting /\ ~last.p.check_mode) =>
       LET p == last.p
           n == last.found[1]
           chowns == CallsOf(last.calls, "chown")
       IN  IF UserDiffers(p, n) \/ GroupDiffers(p, n)
             THEN Len(chowns) = 1 /\ chowns = <<ExpectedChown>>
                  /\ OwnershipAsRequested
             ELSE chowns = <<>> /\ Current.UID = n.UID /\ Current.GID = n.GID

\* Every requested name that differs names an existing user / group.
Resolvable ==
    LET p == last.p
        n == last.found[1]
    IN  /\ UserDiffers(p, n) => UserExists(p.user_name[1])
        /\ GroupDiffers(p, n) => GroupExists(p.group_name[1])

\* C7 as amended: the chown call is issued iff a requested name differs and
\* every differing name names an existing user / group; if one does not, the
\* invocation fails without a chown call and the owner and group stay.
C7_OwnershipTransfer ==
    (PresentOnExisting /\ ~last.p.check_mode) =>
       LET p == last.p
           n == last.found[1]
           chowns == CallsOf(last.calls, "chown")
       IN  IF (UserDiffers(p, n) \/ GroupDiffers(p, n)) /\ Resolvable
             THEN chowns = <<ExpectedChown>> /\ OwnershipAsRequested
                  /\ last.end = "exit"
             ELSE chowns = <<>> /\ Current.UID = n.UID /\ Current.GID = n.GID
                  /\ (Resolvable <=> last.end = "exit")

\* C7 witness: an update has transferred both the owner and the group.
C7_Witness ==
    /\ PresentOnExisting /\ ~last.p.check_mode
    /\ UserDiffers(last.p, last.found[1]) /\ GroupDiffers(last.p, last.found[1])
    /\ \E i \in 1 .. Len(last.calls) :
          last.calls[i].op = "chown" /\ last.calls[i].uid # -1 /\ last.calls[i].gid # -1
    /\ Current.UID # last.found[1].UID /\ Current.GID # last.found[1].GID

\* last is a state=present invocation that found its network and failed on
\* the lookup of the requested user or group.
FailedOnLookup == PresentOnExisting /\ last.end = "fail"

\* C8 as stated: a state=present invocation on an existing network that
\* fails because the requested user or group does not exist has issued no
\* mutating call and left the network as it was.
C8_Original == FailedOnLookup => (last.calls = <<>> /\ Current = last.found[1])

\* C8 as amended: such an invocation has issued no chown call and left the
\* owner and group as they were; it has issued the template update, and that
\* call alone, iff the requested template differed and it is not in check
\* mode, and the template is then the requested one, else as it was.
C8_FailureLeavesOwnership ==
    FailedOnLookup =>
       LET p == last.p
           n == last.found[1]
           updated == get_template_diff(get_network_info(n), p.template)
                        /\ ~p.check_mode
       IN  /\ ~Resolvable
           /\ CallsOf(last.calls, "chown") = <<>>
           /\ Current.UID = n.UID /\ Current.GID = n.GID
           /\ last.calls = IF updated
                             THEN <<Call("update", n.ID, -1, -1, p.template.items)>>
                             ELSE <<>>
           /\ Current.TEMPLATE = IF updated THEN p.template.items ELSE n.TEMPLATE

\* C8 witness: the invocation failed on the lookup after it had replaced the
\* template.
C8_Witness ==
    /\ FailedOnLookup /\ ~last.p.check_mode
    /\ CallsOf(last.calls, "update") # <<>>
    /\ Current.TEMPLATE # last.found[1].TEMPLATE

====
